---- MODULE Spec2Model ----
(***************************************************************************)
(* Model of the pktdump packet pipeline: the capture source adapter        *)
(* (pkt_inputfile.c), the pipeline registry (pkt_pipeline.c), the stage    *)
(* execution engine (pktdump_process_one), the hexdumpc stage              *)
(* (pkt_dumpc.c) and main (pktdump.c).                                     *)
(***************************************************************************)
EXTENDS Integers, Sequences, FiniteSets, TLC

\* ------------------------------------------------------------------ bounds
\* frames in the replayed capture file
MaxFrames == 2
\* registrations other than a hexdumpc stage whose init succeeds: another
\* stage descriptor, or a hexdumpc stage whose private-state malloc fails
MaxSpecial == 1
\* registrations attempted on a full registry
MaxRejected == 1
\* iterations allowed to the packet loop of pkt_hexdumpc_process
LoopFuel == 4
\* calls of pktdump_finish after the first one
MaxRefinish == 1
\* stages of the pipelines whose dispatch cycles are looked at one by one
MaxCycleStages == 3
\* the largest frame count pcap_dispatch is taken to return
MaxResult == 100
\* sources main may leave behind by reading another input option
MaxOrphans == 1
\* the largest extent of a batch handed to pkt_hexdumpc_process on its own
MaxExtent == 3

\* ------------------------------------------------------- program constants
PKT_PIPELINE_MAX == 8

\* the stage descriptors: hexdumpc (pkt_dumpc.c), an instrumented stage whose
\* process claims and/or rejects a frame according to the frame's tag, and a
\* stage with neither init nor process operation
StageKinds == {"hexdumpc", "probe", "noproc"}

\* the frames a capture file replays: an empty frame, and frames with bytes that
\* an instrumented stage passes, claims or rejects
\* a time_t of 64 bits: its upper and its lower 32 bits
Seconds(hi32, lo32) == [hi32 |-> hi32, lo32 |-> lo32]

\* a suseconds_t of 64 bits (ts.tv_usec): its upper and its lower 32 bits
Micros(hi32, lo32) == [hi32 |-> hi32, lo32 |-> lo32]

Frames == {[caplen |-> 0, len |-> 0, tv_sec |-> Seconds(0, 10), tv_usec |-> Micros(0, 500), tag |-> "pass"],
           [caplen |-> 2, len |-> 4, tv_sec |-> Seconds(0, 10), tv_usec |-> Micros(0, 500), tag |-> "pass"],
           [caplen |-> 2, len |-> 4, tv_sec |-> Seconds(0, 10), tv_usec |-> Micros(0, 500), tag |-> "claim"],
           [caplen |-> 2, len |-> 4, tv_sec |-> Seconds(0, 10), tv_usec |-> Micros(0, 500), tag |-> "fail"]}

\* the pcap_pkthdr of a frame
PktHdr(frame) == [caplen |-> frame.caplen, len |-> frame.len,
                  tv_sec |-> frame.tv_sec, tv_usec |-> frame.tv_usec]

NoPktHdr == [caplen |-> 0, len |-> 0, tv_sec |-> Seconds(0, 0),
             tv_usec |-> Micros(0, 0)]

NullInfo == [null |-> TRUE, pkt_num |-> 0]

\* a pkt_pipeline_instance after memset(pps, 0, sizeof(*pps))
ZeroInstance == [pi_stage |-> "NULL", pi_stage_info |-> NullInfo, pi_stage_num |-> 0]

VARIABLES
    pc,               \* position of the driver (main)
    pps,              \* main's pointer: "NULL" or "live"
    pps_allocated,    \* the PipelineSource allocation is live
    ps_pcap_reader,   \* the capture handle: "NULL", "open" or "closed"
    pkt_datalink,     \* ps_pipeline.pkt_datalink
    pkt_stage_next,   \* ps_pipeline.pkt_stage_next
    pkt_stages,       \* ps_pipeline.pkt_stages[PKT_PIPELINE_MAX]
    pkt_master_list,  \* ps_pipeline.pkt_master_list
    pkt1,             \* the batch array of the last dispatch cycle
    h,                \* the pcap_pkthdr handed to the last dispatch cycle
    th,               \* the frame header built by the last dispatch cycle
    buffer1,          \* the bytes memcpy put into buffer1: offset, count
    calls,            \* the process invocations of the last dispatch cycle
    ret,              \* pktdump_process_one's ret when the last cycle ended
    prev_ret,         \* ret when the cycle before the last one ended
    returned_to_pool, \* batch indices handed back to the capture mechanism
    cycles,           \* dispatch cycles run
    nframes,          \* frames the capture file replays
    delivered,        \* frames pcap_dispatch has read so far
    dispatch_result,  \* what pcap_dispatch returned
    run_ret,          \* what pktdump_runpipeline returned
    main_ret,         \* main's variable ret
    exit_status,      \* the status given to exit_tcpdump
    returned,         \* the instances returned by successful pktdump_pipeline_add
    last_add,         \* the outcome of the last pktdump_pipeline_add
    wrap_ret,         \* what the registering wrapper returned to main
    init_failed,      \* stage indices whose init reported failure
    rejected,         \* registrations attempted on a full registry
    file_datalink,    \* the link type pcap_datalink reports for the open file
    ebuf,             \* the diagnostic text: "unset" or "set"
    frees,            \* calls of free() on the PipelineSource allocation
    finish_calls,     \* calls of pktdump_finish
    orphans,          \* sources still open whose address main has overwritten
    batch,            \* a batch handed to pkt_hexdumpc_process on its own
    walk,             \* what pkt_hexdumpc_process did with it
    init_calls,       \* per slot, the calls of the stage's init so far
    null_deref        \* a null pointer was written through: "none", "pps", "stage_info"

vars == <<pc, pps, pps_allocated, ps_pcap_reader, pkt_datalink, pkt_stage_next,
          pkt_stages, pkt_master_list, pkt1, th, calls, ret, prev_ret,
          returned_to_pool, cycles, nframes, delivered, dispatch_result, run_ret, main_ret,
          exit_status, returned, last_add, wrap_ret, init_failed, rejected,
          init_calls, orphans, batch, walk, h, buffer1, file_datalink, ebuf, frees, finish_calls, null_deref>>

srcVars == <<pps, pps_allocated, ps_pcap_reader, pkt_datalink, file_datalink, ebuf,
             frees, finish_calls, orphans>>
regVars == <<pkt_stage_next, pkt_stages, returned, last_add, wrap_ret, init_failed,
             init_calls,
             rejected>>
cycleVars == <<pkt_master_list, pkt1, h, th, buffer1, batch, walk, calls, ret, prev_ret,
               returned_to_pool, cycles>>
dispVars == <<delivered, dispatch_result, run_ret>>
exitVars == <<main_ret, exit_status>>

\* no init was called: no instance was handed to one
NoInstanceSeen == [pi_stage |-> "NULL", pi_stage_num |-> -1]
NoAdd == [ret |-> -1, init_called |-> FALSE, init_ret |-> 0,
          init_saw |-> NoInstanceSeen]
NoExit == [kind |-> "none", val |-> 0]
NoHeader == [tp_mac |-> 0, tp_sec |-> 0, tp_nsec |-> 0, tp_snaplen |-> 0,
             tp_len |-> 0, tp_status |-> 0]
NoCopy == [offset |-> 0, count |-> 0]
NoWalk == [ret |-> 0, pkt_num |-> 0, visits |-> <<>>, hung |-> FALSE]

\* ------------------------------------------------------------ stage table
\* pp_init of a stage descriptor is set
HasInit(ps) == ps \in {"hexdumpc", "probe"}

\* pp_process of a stage descriptor is set
HasProcess(ps) == ps \in {"hexdumpc", "probe"}

\* pkt_hexdumpc_init: allocates the private state; -2 when malloc fails
hexdumpc_init(allocOK) ==
    IF allocOK THEN [ret |-> 0, info |-> [null |-> FALSE, pkt_num |-> 0]]
    ELSE [ret |-> -2, info |-> NullInfo]

\* the init operation of stage descriptor ps on a fresh instance
StageInit(ps, info, allocOK) ==
    IF ps = "hexdumpc" THEN hexdumpc_init(allocOK)
    ELSE [ret |-> 0, info |-> info]

\* ------------------------------------------------------ pktdump_pipeline_add
\* the capacity check
AddRejects(next) == next >= PKT_PIPELINE_MAX

\* the index given to the new instance
AssignedStageNum(next) == next

\* variant of NextAfterAdd: the increment of pkt_stage_next is lost
NextAfterAdd_Stuck(next) == next

\* the stage count after a registration
NextAfterAdd(next) == next + 1

\* what pktdump_pipeline_add returns once the slot is filled: the instance,
\* whatever init reported
AddReturn(stage_num, init_called, init_ret) == stage_num

\* variant of InstanceAtInit: init is called before the slot is written
InstanceAtInit_Before(stages, ps, stage_num) ==
    [pi_stage |-> stages[stage_num].pi_stage,
     pi_stage_num |-> stages[stage_num].pi_stage_num]

\* pi_stage_num and pi_stage of the instance handed to init: both are stored
\* before ps->pp_init(&pps->ps_pipeline, pi)
InstanceAtInit(stages, ps, stage_num) ==
    [pi_stage |-> ps, pi_stage_num |-> stage_num]

\* variant of FillSlot: the private state init made is stored in every
\* instance up to the new one
FillSlot_SharesInfo(next, stages, ps, allocOK, stage_num) ==
    LET called == HasInit(ps)
        ini == IF called
               THEN StageInit(ps, stages[stage_num].pi_stage_info, allocOK)
               ELSE [ret |-> 0, info |-> stages[stage_num].pi_stage_info]
        pi == [pi_stage |-> ps, pi_stage_info |-> ini.info,
               pi_stage_num |-> stage_num]
    IN [next |-> next,
        stages |-> [k \in DOMAIN stages |->
                      IF k = stage_num THEN pi
                      ELSE IF k < stage_num
                      THEN [stages[k] EXCEPT !.pi_stage_info = ini.info]
                      ELSE stages[k]],
        out |-> [ret |-> AddReturn(stage_num, called, ini.ret),
                 init_called |-> called, init_ret |-> ini.ret,
                 init_saw |-> IF called THEN InstanceAtInit(stages, ps, stage_num)
                              ELSE NoInstanceSeen]]

\* the slot is filled and init called, for the instance at index stage_num
FillSlot(next, stages, ps, allocOK, stage_num) ==
    LET called == HasInit(ps)
        ini == IF called
               THEN StageInit(ps, stages[stage_num].pi_stage_info, allocOK)
               ELSE [ret |-> 0, info |-> stages[stage_num].pi_stage_info]
        pi == [pi_stage |-> ps, pi_stage_info |-> ini.info,
               pi_stage_num |-> stage_num]
    IN [next |-> next,
        stages |-> [stages EXCEPT ![stage_num] = pi],
        out |-> [ret |-> AddReturn(stage_num, called, ini.ret),
                 init_called |-> called, init_ret |-> ini.ret,
                 init_saw |-> IF called THEN InstanceAtInit(stages, ps, stage_num)
                              ELSE NoInstanceSeen]]

\* variant of PipelineAdd: a full registry overwrites its last slot
PipelineAdd_ClobbersLast(next, stages, ps, allocOK) ==
    IF AddRejects(next)
    THEN FillSlot(next, stages, ps, allocOK, PKT_PIPELINE_MAX - 1)
    ELSE FillSlot(NextAfterAdd(next), stages, ps, allocOK, AssignedStageNum(next))

\* the registry after pktdump_pipeline_add(pps, ps)
PipelineAdd(next, stages, ps, allocOK) ==
    IF AddRejects(next)
    THEN [next |-> next, stages |-> stages, out |-> NoAdd]
    ELSE FillSlot(NextAfterAdd(next), stages, ps, allocOK, AssignedStageNum(next))

\* pktdump_hexdumpc_pipeline and its like: -1 when the add returned NULL
WrapperReturn(add_ret) == IF add_ret = -1 THEN -1 ELSE 0

\* ------------------------------------------------------- pkt_hexdumpc_process
\* the packet loop of pkt_hexdumpc_process from index i on: the byte loop of a
\* present entry resets i to 0 and counts it up to the captured length, and the
\* packet loop's i++ follows
RECURSIVE hexdumpc_loop(_, _, _, _, _, _)
hexdumpc_loop(i, list, extent, snaplen, num, fuel) ==
    IF ~(i < extent) THEN [done |-> TRUE, pkt_num |-> num]
    ELSE IF fuel = 0 THEN [done |-> FALSE, pkt_num |-> num]
    ELSE IF list[i + 1] # "NULL"
         THEN hexdumpc_loop(snaplen + 1, list, extent, snaplen, num + 1, fuel - 1)
         ELSE hexdumpc_loop(i + 1, list, extent, snaplen, num, fuel - 1)

\* the same loop on a batch whose entries have each their own header: entries
\* is a sequence of [present, caplen], visits counts how often each index was
\* looked at
RECURSIVE hexdumpc_walk(_, _, _, _, _, _)
hexdumpc_walk(i, entries, extent, num, visits, fuel) ==
    IF ~(i < extent) THEN [done |-> TRUE, pkt_num |-> num, visits |-> visits]
    ELSE IF fuel = 0 THEN [done |-> FALSE, pkt_num |-> num, visits |-> visits]
    ELSE LET seen == [visits EXCEPT ![i + 1] = @ + 1]
         IN IF entries[i + 1].present
            THEN hexdumpc_walk(entries[i + 1].caplen + 1, entries, extent, num + 1,
                               seen, fuel - 1)
            ELSE hexdumpc_walk(i + 1, entries, extent, num, seen, fuel - 1)

\* pkt_hexdumpc_process on such a batch, with a private state that counted
\* `num` packets so far; a terminating call looks at no index twice, so
\* extent + 1 steps tell a call that ends from one that does not
hexdumpc_batch(entries, num) ==
    LET run == hexdumpc_walk(0, entries, Len(entries), num,
                             [k \in 1..Len(entries) |-> 0], Len(entries) + 1)
    IN [ret |-> 0, pkt_num |-> run.pkt_num, visits |-> run.visits,
        hung |-> ~run.done]

\* some entry below the extent is present: the stage dereferences its private state
AnyPresent(list, extent) == \E k \in 1..Len(list) : k <= extent /\ list[k] # "NULL"

\* pkt_hexdumpc_process on a batch: counts the present packets and returns 0;
\* with a null private state and a present packet it writes through a null
\* pointer (ub)
hexdumpc_process(info, list, extent, snaplen) ==
    LET run == hexdumpc_loop(0, list, extent, snaplen, info.pkt_num, LoopFuel)
        ub == info.null /\ AnyPresent(list, extent)
    IN [ret |-> 0,
        info |-> IF info.null THEN info ELSE [info EXCEPT !.pkt_num = run.pkt_num],
        list |-> list, ub |-> ub, hung |-> ~run.done]

\* the process operation of an instrumented stage: the frame's tag says whether
\* it claims the entry and whether it returns non-zero
probe_process(info, list, tag) ==
    [ret |-> IF tag = "fail" THEN 1 ELSE 0,
     info |-> info,
     list |-> IF tag = "claim"
              THEN [k \in 1..Len(list) |-> "NULL"] ELSE list,
     ub |-> FALSE, hung |-> FALSE]

\* (ppi->pi_stage->pp_process)(pp, ppi, ppl)
StageProcess(ps, info, list, extent, snaplen, tag) ==
    IF ps = "hexdumpc" THEN hexdumpc_process(info, list, extent, snaplen)
    ELSE probe_process(info, list, tag)

\* ------------------------------------------------------- pktdump_process_one
\* variant of ClampCaplen: the captured length is used as reported
ClampCaplen_None(caplen) == caplen

\* caplen = h->caplen; if(caplen > 65536) caplen = 65536
ClampCaplen(caplen) == IF caplen > 65536 THEN 65536 ELSE caplen

\* th->tp_sec = h->ts.tv_sec: a time_t stored in the __u32 field keeps its
\* lower 32 bits
SecondsToU32(t) == t.lo32

\* th->tp_nsec = h->ts.tv_usec: a suseconds_t stored in the __u32 field keeps
\* its lower 32 bits
MicrosToU32(u) == u.lo32

\* variant of BuildHeader: tp_len is given the captured length
BuildHeader_LenIsCaplen(frame) ==
    [tp_mac |-> 2048,
     tp_sec |-> SecondsToU32(frame.tv_sec),
     tp_nsec |-> MicrosToU32(frame.tv_usec),
     tp_snaplen |-> ClampCaplen(frame.caplen),
     tp_len |-> ClampCaplen(frame.caplen),
     tp_status |-> 0]

\* the tpacket3_hdr built in buffer1 for a frame
BuildHeader(frame) ==
    [tp_mac |-> 2048,
     tp_sec |-> SecondsToU32(frame.tv_sec),
     tp_nsec |-> MicrosToU32(frame.tv_usec),
     tp_snaplen |-> ClampCaplen(frame.caplen),
     tp_len |-> frame.len,
     tp_status |-> 0]

\* memcpy(buffer1 + 2048, bytes, caplen): where the frame's first bytes go and
\* how many of them
CopyBytes(frame) == [offset |-> 2048, count |-> ClampCaplen(frame.caplen)]

\* variant of FreshBatch: the array keeps the entry the cycle before left in it
FreshBatch_Stale == IF pkt1 = <<>> THEN <<"pkt0">> ELSE pkt1

\* pkt1[0] = &pkt0: the batch array at the start of a cycle
FreshBatch == <<"pkt0">>

\* ppl->pkt_extent = 1
BatchExtent == Len(FreshBatch)

\* the stage loop's condition
LoopContinues(i, next) == i < next /\ i < PKT_PIPELINE_MAX

\* variant of LoopBreaks: the stage loop never breaks
LoopBreaks_Never(r) == FALSE

\* if(ret != 0) break
LoopBreaks(r) == r # 0

\* variant of BatchForStage: the entry is set again before every stage
BatchForStage_Fresh(list) == FreshBatch

\* the batch a stage is handed: the one shared list, as the stages before left it
BatchForStage(list) == list

\* variant of SkippedRet: a stage without a process operation counts as failed
SkippedRet_Stop(prev) == prev + 1

\* ret = 0 at the top of the loop body: the ret of a stage that is not invoked
SkippedRet(prev) == 0

\* the stage is invoked: it is set and has a process operation
Invoked(ppi) == ppi.pi_stage # "NULL" /\ HasProcess(ppi.pi_stage)

\* the stage loop from index i on. st holds ret, the batch array, the stage
\* instances, the invocations so far and whether a stage crashed or hung.
\* ubOutcome is what a write through a null private state does: "crash" or
\* "continue"
RECURSIVE StageLoop(_, _, _, _, _, _)
StageLoop(i, next, st, hdr, tag, ubOutcome) ==
    IF ~LoopContinues(i, next) THEN st
    ELSE LET ppi == st.stages[i]
             list == BatchForStage(st.list)
             res == StageProcess(ppi.pi_stage, ppi.pi_stage_info, list,
                                 st.extent, hdr.tp_snaplen, tag)
             call == [stage |-> i, seen |-> list[1] # "NULL",
                      left |-> res.list[1] # "NULL", ret |-> res.ret,
                      info_null |-> ppi.pi_stage_info.null,
                      extent |-> st.extent, hdr |-> hdr]
         IN IF ~Invoked(ppi)
            THEN LET st1 == [st EXCEPT !.ret = SkippedRet(st.ret)]
                 IN IF LoopBreaks(st1.ret) THEN st1
                    ELSE StageLoop(i + 1, next, st1, hdr, tag, ubOutcome)
            ELSE IF (res.ub /\ ubOutcome = "crash") \/ res.hung
            THEN [st EXCEPT !.calls = Append(st.calls, call),
                            !.crashed = res.ub, !.hung = res.hung,
                            !.deref = st.deref \/ res.ub]
            ELSE LET st2 == [st EXCEPT !.ret = res.ret, !.list = res.list,
                                       !.stages[i].pi_stage_info = res.info,
                                       !.calls = Append(st.calls, call),
                                       !.deref = st.deref \/ res.ub]
                 IN IF LoopBreaks(res.ret) THEN st2
                    ELSE StageLoop(i + 1, next, st2, hdr, tag, ubOutcome)

\* after the stage loop the function returns: nothing is handed back to the
\* capture mechanism
ReleaseUnclaimed(list) == {}

\* variant of CallbackBreaksLoop: a non-zero ret stops pcap_dispatch
CallbackBreaksLoop_OnError(r) == r # 0

\* the callback returns void: a stage's non-zero code does not reach pcap_dispatch
CallbackBreaksLoop(r) == FALSE

\* pktdump_process_one(user, h, bytes) for one frame
ProcessOneResult(next, stages, frame, ubOutcome) ==
    StageLoop(0, next,
              [ret |-> 0, list |-> FreshBatch, extent |-> BatchExtent,
               stages |-> stages, calls |-> <<>>,
               crashed |-> FALSE, hung |-> FALSE, deref |-> FALSE],
              BuildHeader(frame), frame.tag, ubOutcome)

\* --------------------------------------------------------- pktdump_runpipeline
\* the cnt argument of pcap_dispatch: -1, every frame of the file
DispatchCnt == -1

\* variant of DispatchGoesOn: pcap_dispatch is given cnt = 1
DispatchGoesOn_One(n) == n < 1

\* pcap_dispatch goes on reading after `n` frames
DispatchGoesOn(n) == DispatchCnt <= 0 \/ n < DispatchCnt

\* variant of RunPipelineRet: every failure of pcap_dispatch is reported as -1
RunPipelineRet_OneError(result) == IF result < 0 THEN -1 ELSE 0

\* variant of RunPipelineRet: success is reported as 1, as pktdump_finish does
RunPipelineRet_SuccessIsOne(result) ==
    IF result = -2 THEN -2 ELSE IF result = -1 THEN -1 ELSE 1

\* the mapping of pcap_dispatch's result to pktdump_runpipeline's
RunPipelineRet(result) ==
    IF result = -2 THEN -2 ELSE IF result = -1 THEN -1 ELSE 0

\* ------------------------------------------------------------- pktdump_finish
\* pktdump_finish's return value
FinishRet == 1

\* pktdump_finish(ptr): if(pps != NULL) free(pps); return 1. ptr is "NULL",
\* "live" or "stale" (the address of a source that was already finished);
\* `allocated` says whether the allocation behind ptr is still live
FinishCall(ptr, allocated) ==
    [freed |-> ptr # "NULL",
     double_free |-> ptr # "NULL" /\ ~allocated,
     ret |-> FinishRet]

\* what pktdump_finish leaves of the capture handle: free(pps) alone, the
\* handle is not closed
HandleAfterFinish(reader) == reader

\* ------------------------------------------------------------------------ main
\* main's ret after `ret = pktdump_runpipeline(pps)` and
\* `ret = pktdump_finish(pps)`
MainRetAfterFinish(runret, finret) == finret

Datalinks == {"DLT_EN10MB", "DLT_RAW"}

\* variant of InputSourceResult: the allocation is kept when the file does not open
InputSourceResult_Leaks(allocOK, openOK, dl, openFirst) ==
    IF ~allocOK
    THEN [ret |-> "NULL", allocated |-> FALSE, reader |-> "NULL", datalink |-> "none",
          stage_next |-> 0, ebuf_set |-> (openFirst /\ ~openOK), null_write |-> TRUE,
          freed |-> FALSE]
    ELSE IF ~openOK
    THEN [ret |-> "NULL", allocated |-> TRUE, reader |-> "NULL", datalink |-> "none",
          stage_next |-> 0, ebuf_set |-> TRUE, null_write |-> FALSE, freed |-> FALSE]
    ELSE [ret |-> "live", allocated |-> TRUE, reader |-> "open", datalink |-> dl,
          stage_next |-> 0, ebuf_set |-> FALSE, null_write |-> FALSE, freed |-> FALSE]

\* pktdump_inputsource(file, ebuf): malloc, memset of the result whatever it
\* is, pcap_open_offline_with_tstamp_precision; free and NULL when the file
\* does not open (pcap fills ebuf; `freed`: free(pps) was called), else the
\* link type is recorded.
\* allocOK: malloc succeeded; openOK: the file opened; dl: its link type.
\* When malloc returned NULL the memset and the store of the handle write
\* through a null pointer, which is undefined: the program dies at the memset,
\* or (openFirst, malloc and memset compiled to one calloc) only at the store
\* that follows pcap_open_offline_with_tstamp_precision, which has filled ebuf
\* by then if the file did not open
InputSourceResult(allocOK, openOK, dl, openFirst) ==
    IF ~allocOK
    THEN [ret |-> "NULL", allocated |-> FALSE, reader |-> "NULL", datalink |-> "none",
          stage_next |-> 0, ebuf_set |-> (openFirst /\ ~openOK), null_write |-> TRUE,
          freed |-> FALSE]
    ELSE IF ~openOK
    THEN [ret |-> "NULL", allocated |-> FALSE, reader |-> "NULL", datalink |-> "none",
          stage_next |-> 0, ebuf_set |-> TRUE, null_write |-> FALSE, freed |-> TRUE]
    ELSE [ret |-> "live", allocated |-> TRUE, reader |-> "open", datalink |-> dl,
          stage_next |-> 0, ebuf_set |-> FALSE, null_write |-> FALSE, freed |-> FALSE]

Status(kind) == [kind |-> kind, val |-> 0]

\* registered stages that are not a hexdumpc stage with its private state
Specials == Cardinality({k \in 0..(PKT_PIPELINE_MAX - 1) :
                           /\ k < pkt_stage_next
                           /\ \/ pkt_stages[k].pi_stage # "hexdumpc"
                              \/ pkt_stages[k].pi_stage_info.null})

InitRest ==
    /\ pps = "NULL"
    /\ pps_allocated = FALSE
    /\ ps_pcap_reader = "NULL"
    /\ pkt_datalink = "none"
    /\ pkt_stage_next = 0
    /\ pkt_stages = [k \in 0..(PKT_PIPELINE_MAX - 1) |-> ZeroInstance]
    /\ pkt_master_list = [pkt_list |-> "NULL", pkt_extent |-> 0]
    /\ pkt1 = <<>>
    /\ th = NoHeader
    /\ buffer1 = NoCopy
    /\ calls = <<>>
    /\ ret = 0
    /\ prev_ret = 0
    /\ returned_to_pool = {}
    /\ cycles = 0
    /\ nframes = 0
    /\ delivered = 0
    /\ dispatch_result = 0
    /\ run_ret = 0
    /\ main_ret = 0
    /\ exit_status = NoExit
    /\ returned = <<>>
    /\ last_add = NoAdd
    /\ walk = NoWalk
    /\ orphans = 0
    /\ init_calls = [k \in 0..(PKT_PIPELINE_MAX - 1) |-> 0]
    /\ wrap_ret = 0
    /\ init_failed = {}
    /\ rejected = 0
    /\ file_datalink = "none"
    /\ ebuf = "unset"
    /\ frees = 0
    /\ finish_calls = 0
    /\ null_deref = "none"

\* main is entered: nothing was done yet
Init ==
    /\ pc = "start"
    /\ h = NoPktHdr
    /\ batch = <<>>
    /\ InitRest

\* a caller of the adapter and the registry before its first call
InitCaller ==
    /\ pc = "opts"
    /\ h = NoPktHdr
    /\ batch = <<>>
    /\ InitRest

\* main before its option loop: abort_on_misalignment() < 0 ends the program
\* through error(), which exits with S_ERR_HOST_PROGRAM; else the loop starts
Startup ==
    /\ pc = "start"
    /\ \E misaligned \in BOOLEAN :
          /\ pc' = IF misaligned THEN "exited" ELSE "opts"
          /\ exit_status' = IF misaligned THEN Status("S_ERR_HOST_PROGRAM")
                            ELSE exit_status
    /\ UNCHANGED <<srcVars, regVars, cycleVars, dispVars, main_ret, nframes,
                   null_deref>>

\* main, case OPTION_VERSION: print_version() and exit_tcpdump(S_SUCCESS),
\* whatever was opened or registered before
OptVersion ==
    /\ pc = "opts"
    /\ pc' = "exited"
    /\ exit_status' = Status("S_SUCCESS")
    /\ UNCHANGED <<srcVars, regVars, cycleVars, dispVars, main_ret, nframes,
                   null_deref>>

\* main, default: an option getopt_long does not know, or one of the table
\* without a case of its own (--inputfile, --inputpcapng, --outputpcap,
\* --outputpcapng): print_usage() and exit_tcpdump(S_ERR_HOST_PROGRAM)
OptUnknown ==
    /\ pc = "opts"
    /\ pc' = "exited"
    /\ exit_status' = Status("S_ERR_HOST_PROGRAM")
    /\ UNCHANGED <<srcVars, regVars, cycleVars, dispVars, main_ret, nframes,
                   null_deref>>

\* main, case OPTION_INPUTPCAP: pktdump_inputsource(optarg, ebuf); when the
\* file does not open the allocation is freed, NULL comes back and main exits.
\* When malloc fails the memset writes through the null pointer
OptInputPcap ==
    /\ pc = "opts"
    /\ pps = "NULL"
    /\ \E allocOK \in BOOLEAN, openOK \in BOOLEAN, dl \in Datalinks, n \in 0..MaxFrames,
          openFirst \in BOOLEAN :
          LET r == InputSourceResult(allocOK, openOK, dl, openFirst)
          IN /\ ~(allocOK /\ openOK) => dl = "DLT_EN10MB" /\ n = 0
             /\ allocOK => ~openFirst
             /\ ~allocOK /\ ~openFirst => openOK
             /\ pps' = r.ret
             /\ pps_allocated' = r.allocated
             /\ ps_pcap_reader' = r.reader
             /\ pkt_datalink' = r.datalink
             /\ pkt_stage_next' = r.stage_next
             /\ file_datalink' = IF allocOK /\ openOK THEN dl ELSE file_datalink
             /\ nframes' = IF allocOK /\ openOK THEN n ELSE nframes
             /\ ebuf' = IF r.ebuf_set THEN "set" ELSE ebuf
             /\ null_deref' = IF r.null_write THEN "pps" ELSE null_deref
             /\ pc' = IF r.null_write THEN "crashed"
                      ELSE IF r.ret = "NULL" THEN "exited" ELSE pc
             /\ exit_status' = IF ~r.null_write /\ r.ret = "NULL"
                               THEN Status("S_ERR_ND_OPEN_FILE") ELSE exit_status
             /\ frees' = IF r.freed THEN frees + 1 ELSE frees
    /\ UNCHANGED <<pkt_stages, returned, last_add, wrap_ret, init_failed, rejected,
                   init_calls,
                   cycleVars, dispVars, main_ret, finish_calls, orphans>>

\* main, case OPTION_INPUTPCAP once more: pps is assigned the result of another
\* pktdump_inputsource. The source pps pointed to is not finished: it stays
\* allocated with its handle open and nothing refers to it any more. The
\* registry is the one of the new source, zeroed by the memset
OptInputPcapAgain ==
    /\ pc = "opts"
    /\ pps = "live"
    /\ orphans < MaxOrphans
    /\ \E allocOK \in BOOLEAN, openOK \in BOOLEAN, dl \in Datalinks, n \in 0..MaxFrames,
          openFirst \in BOOLEAN :
          LET r == InputSourceResult(allocOK, openOK, dl, openFirst)
              assigned == ~r.null_write
          IN /\ ~(allocOK /\ openOK) => dl = "DLT_EN10MB" /\ n = 0
             /\ allocOK => ~openFirst
             /\ ~allocOK /\ ~openFirst => openOK
             /\ pps' = IF assigned THEN r.ret ELSE pps
             /\ pps_allocated' = IF assigned THEN r.allocated ELSE pps_allocated
             /\ ps_pcap_reader' = IF assigned THEN r.reader ELSE ps_pcap_reader
             /\ pkt_datalink' = IF assigned THEN r.datalink ELSE pkt_datalink
             /\ orphans' = IF assigned THEN orphans + 1 ELSE orphans
             /\ pkt_stage_next' = IF assigned THEN r.stage_next ELSE pkt_stage_next
             /\ pkt_stages' = IF assigned
                              THEN [k \in 0..(PKT_PIPELINE_MAX - 1) |-> ZeroInstance]
                              ELSE pkt_stages
             /\ init_calls' = IF assigned
                              THEN [k \in 0..(PKT_PIPELINE_MAX - 1) |-> 0]
                              ELSE init_calls
             /\ returned' = IF assigned THEN <<>> ELSE returned
             /\ init_failed' = IF assigned THEN {} ELSE init_failed
             /\ file_datalink' = IF allocOK /\ openOK THEN dl ELSE file_datalink
             /\ nframes' = IF allocOK /\ openOK THEN n ELSE nframes
             /\ ebuf' = IF r.ebuf_set THEN "set" ELSE ebuf
             /\ null_deref' = IF r.null_write THEN "pps" ELSE null_deref
             /\ pc' = IF r.null_write THEN "crashed"
                      ELSE IF r.ret = "NULL" THEN "exited" ELSE pc
             /\ exit_status' = IF ~r.null_write /\ r.ret = "NULL"
                               THEN Status("S_ERR_ND_OPEN_FILE") ELSE exit_status
             /\ frees' = IF r.freed THEN frees + 1 ELSE frees
    /\ UNCHANGED <<last_add, wrap_ret, rejected, cycleVars, dispVars, main_ret,
                   finish_calls>>

\* main, an output option given before any input source
OptPrintNoInput ==
    /\ pc = "opts"
    /\ pps = "NULL"
    /\ pc' = "exited"
    /\ exit_status' = Status("S_ERR_PD_NO_INPUT")
    /\ UNCHANGED <<srcVars, regVars, cycleVars, dispVars, main_ret, nframes,
                   null_deref>>

\* a stage is registered on the open source: pktdump_pipeline_add through a
\* wrapper such as pktdump_hexdumpc_pipeline
RegisterStage(ps, allocOK) ==
    LET r == PipelineAdd(pkt_stage_next, pkt_stages, ps, allocOK)
        full == r.out.ret = -1
        initfail == r.out.init_called /\ r.out.init_ret < 0
    IN /\ pkt_stage_next' = r.next
       /\ pkt_stages' = r.stages
       /\ last_add' = r.out
       /\ wrap_ret' = WrapperReturn(r.out.ret)
       /\ returned' = IF full THEN returned
                      ELSE Append(returned, [slot |-> r.out.ret, stage |-> ps])
       /\ init_failed' = IF initfail THEN init_failed \cup {r.out.ret}
                         ELSE init_failed
       /\ rejected' = IF full THEN rejected + 1 ELSE rejected
       /\ init_calls' = IF r.out.init_called
                        THEN [init_calls EXCEPT ![r.out.ret] = @ + 1]
                        ELSE init_calls
       /\ UNCHANGED <<srcVars, cycleVars, dispVars, nframes, null_deref>>

\* a caller that goes on whatever the wrapper returned
AddStage(ps, allocOK) ==
    /\ RegisterStage(ps, allocOK)
    /\ UNCHANGED <<pc, exitVars>>

\* the stage pktdump_print_pipeline registers: its descriptor is taken to be
\* like hexdumpc's, a stage with an init that allocates its private state and
\* a process
PrintStages == {"hexdumpc"}

\* pktdump_print_pipeline(pps): a wrapper of pktdump_pipeline_add as
\* pktdump_hexdumpc_pipeline is, for the descriptor of the printing stage
PrintPipeline(ps, allocOK) == RegisterStage(ps, allocOK)

\* main, case OPTION_PRINT on an open source: pktdump_print_pipeline(pps), and
\* exit_tcpdump(S_ERR_PD_NO_INPUT) at once when it does not return 0
OptStage ==
    /\ pc = "opts"
    /\ pps = "live"
    /\ \E ps \in PrintStages, allocOK \in BOOLEAN :
          LET full == AddRejects(pkt_stage_next)
          IN /\ full => allocOK /\ ps = "hexdumpc"
             /\ ~allocOK => ps = "hexdumpc"
             /\ ~full /\ (ps # "hexdumpc" \/ ~allocOK) => Specials < MaxSpecial
             /\ PrintPipeline(ps, allocOK)
    /\ pc' = IF wrap_ret' # 0 THEN "exited" ELSE pc
    /\ exit_status' = IF wrap_ret' # 0 THEN Status("S_ERR_PD_NO_INPUT")
                      ELSE exit_status
    /\ UNCHANGED main_ret

\* a caller of the registry adds a stage of any kind and goes on whatever
\* pktdump_pipeline_add returned
AddAnyStage ==
    /\ pc = "opts"
    /\ pps = "live"
    /\ \E ps \in StageKinds, allocOK \in BOOLEAN :
          LET full == AddRejects(pkt_stage_next)
          IN /\ full => rejected < MaxRejected /\ allocOK
             /\ ~allocOK => ps = "hexdumpc"
             /\ ~full /\ (ps # "hexdumpc" \/ ~allocOK) => Specials < MaxSpecial
             /\ AddStage(ps, allocOK)

\* as AddAnyStage, for pipelines of a few stages of any kind
OptStageAny ==
    /\ pc = "opts"
    /\ pps = "live"
    /\ pkt_stage_next < MaxCycleStages
    /\ \E ps \in StageKinds, allocOK \in BOOLEAN :
          /\ ~allocOK => ps = "hexdumpc"
          /\ AddStage(ps, allocOK)

\* the status of exit_tcpdump(ret) when nothing assigned ret: an int of
\* indeterminate value (whatever the register or stack slot held), which the
\* kind alone stands for
UnsetStatus == [kind |-> "unset"]

\* the option loop ends: with a source, pktdump_runpipeline calls
\* pcap_dispatch; without one main exits with its ret, which nothing assigned
EndOptions ==
    /\ pc = "opts"
    /\ \/ /\ pps = "live"
          /\ pc' = "dispatch"
          /\ UNCHANGED exitVars
       \/ /\ pps = "NULL"
          /\ pc' = "exited"
          /\ exit_status' = UnsetStatus
          /\ UNCHANGED main_ret
    /\ UNCHANGED <<srcVars, regVars, cycleVars, dispVars, nframes, null_deref>>

\* a caller calls pktdump_runpipeline on its open source: pcap_dispatch starts
StartDispatch ==
    /\ pc = "opts"
    /\ pps = "live"
    /\ pc' = "dispatch"
    /\ UNCHANGED <<srcVars, regVars, cycleVars, dispVars, exitVars, nframes,
                   null_deref>>

\* pcap_dispatch reads the next frame and calls pktdump_process_one on it
ProcessOne ==
    /\ pc = "dispatch"
    /\ delivered < nframes
    /\ DispatchGoesOn(delivered)
    /\ \E frame \in Frames, ubOutcome \in {"crash", "continue"} :
          LET r == ProcessOneResult(pkt_stage_next, pkt_stages, frame, ubOutcome)
          IN /\ h' = PktHdr(frame)
             /\ th' = BuildHeader(frame)
             /\ buffer1' = CopyBytes(frame)
             /\ null_deref' = IF r.deref THEN "stage_info" ELSE null_deref
             /\ pkt_master_list' = [pkt_list |-> "pkt1", pkt_extent |-> 1]
             /\ pkt1' = r.list
             /\ pkt_stages' = r.stages
             /\ calls' = r.calls
             /\ ret' = r.ret
             /\ prev_ret' = ret
             /\ returned_to_pool' = ReleaseUnclaimed(r.list)
             /\ pc' = IF r.crashed THEN "crashed"
                      ELSE IF r.hung THEN "hung"
                      ELSE IF CallbackBreaksLoop(r.ret) THEN "broken"
                      ELSE "dispatch"
    /\ cycles' = cycles + 1
    /\ delivered' = delivered + 1
    /\ UNCHANGED <<srcVars, pkt_stage_next, returned, last_add, wrap_ret, init_calls,
                   batch, walk,
                   init_failed, rejected, dispatch_result,
                   run_ret, exitVars, nframes>>

\* pcap_dispatch returns to pktdump_runpipeline, which returns to main
DispatchReturns(result) ==
    /\ dispatch_result' = result
    /\ run_ret' = RunPipelineRet(result)
    /\ main_ret' = RunPipelineRet(result)
    /\ pc' = "ran"
    /\ UNCHANGED <<srcVars, regVars, cycleVars, delivered, exit_status, nframes,
                   null_deref>>

\* the file is exhausted (or cnt frames were read): pcap_dispatch returns the
\* frame count, or 0 at the end of a savefile, depending on the libpcap release
DispatchEOF ==
    /\ pc = "dispatch"
    /\ delivered = nframes \/ ~DispatchGoesOn(delivered)
    /\ \E result \in {0, delivered} : DispatchReturns(result)

\* the next record of the file cannot be read: pcap_dispatch returns -1
DispatchError ==
    /\ pc = "dispatch"
    /\ delivered < nframes
    /\ DispatchReturns(-1)

\* variant of Finish: main goes back to its option loop with the address of the
\* finished source
Finish_ThenOptions ==
    /\ pc = "ran"
    /\ pps = "live"
    /\ finish_calls = 0
    /\ pps_allocated' = FALSE
    /\ frees' = frees + 1
    /\ finish_calls' = finish_calls + 1
    /\ main_ret' = FinishRet
    /\ pc' = "opts"
    /\ UNCHANGED <<pps, ps_pcap_reader, pkt_datalink, file_datalink, ebuf, orphans,
                   regVars,
                   cycleVars, dispVars, exit_status, nframes, null_deref>>

\* main: ret = pktdump_finish(pps); pps = NULL
Finish ==
    /\ pc = "ran"
    /\ pps = "live"
    /\ LET r == FinishCall(pps, pps_allocated)
       IN /\ pps_allocated' = (pps_allocated /\ ~r.freed)
          /\ frees' = IF r.freed THEN frees + 1 ELSE frees
          /\ main_ret' = MainRetAfterFinish(run_ret, r.ret)
    /\ finish_calls' = finish_calls + 1
    /\ ps_pcap_reader' = HandleAfterFinish(ps_pcap_reader)
    /\ pps' = "NULL"
    /\ pc' = "finished"
    /\ UNCHANGED <<pkt_datalink, file_datalink, ebuf, orphans, regVars, cycleVars,
                   dispVars,
                   exit_status, nframes, null_deref>>

\* pktdump_finish is called once more after the source was finished: with
\* main's pps, which is NULL by then, or with the address the caller still
\* holds. free() of an address already freed is undefined: the allocator
\* aborts the program or goes on with the block released twice
FinishAgain ==
    /\ pc = "finished"
    /\ finish_calls < 1 + MaxRefinish
    /\ \E ptr \in {"NULL", "stale"}, ubOutcome \in {"crash", "continue"} :
          LET r == FinishCall(ptr, pps_allocated)
          IN /\ ~r.double_free => ubOutcome = "continue"
             /\ frees' = IF r.freed THEN frees + 1 ELSE frees
             /\ pc' = IF r.double_free /\ ubOutcome = "crash" THEN "crashed" ELSE pc
             /\ main_ret' = r.ret
    /\ finish_calls' = finish_calls + 1
    /\ UNCHANGED <<pps, pps_allocated, ps_pcap_reader, pkt_datalink, file_datalink,
                   orphans,
                   ebuf, regVars, cycleVars, dispVars, exit_status, nframes,
                   null_deref>>

\* main: exit_tcpdump(ret)
Exit ==
    /\ pc = "finished"
    /\ exit_status' = [kind |-> "ret", val |-> main_ret]
    /\ pc' = "exited"
    /\ UNCHANGED <<srcVars, regVars, cycleVars, dispVars, main_ret, nframes,
                   null_deref>>

Next ==
    \/ Startup
    \/ OptVersion
    \/ OptUnknown
    \/ OptInputPcap
    \/ OptInputPcapAgain
    \/ OptPrintNoInput
    \/ OptStage
    \/ EndOptions
    \/ ProcessOne
    \/ DispatchEOF
    \/ DispatchError
    \/ Finish
    \/ Exit

Spec == Init /\ [][Next]_vars

\* a caller of the adapter and the registry: one source, stages of every
\* kind, and the caller goes on after an add that was rejected
NextCaller ==
    \/ OptInputPcap
    \/ AddAnyStage
    \/ StartDispatch
    \/ ProcessOne
    \/ DispatchEOF
    \/ DispatchError
    \/ Finish
    \/ Exit

SpecCaller == InitCaller /\ [][NextCaller]_vars

\* a caller of the adapter that finishes a source more than once
NextClose ==
    \/ OptInputPcap
    \/ AddAnyStage
    \/ StartDispatch
    \/ ProcessOne
    \/ DispatchEOF
    \/ DispatchError
    \/ Finish
    \/ FinishAgain
    \/ Exit

SpecClose == InitCaller /\ [][NextClose]_vars

\* the dispatch cycles of short pipelines of every mix of stages
NextCycle ==
    \/ OptInputPcap
    \/ OptStageAny
    \/ StartDispatch
    \/ ProcessOne
    \/ DispatchEOF
    \/ DispatchError
    \/ Finish
    \/ Exit

SpecCycle == InitCaller /\ [][NextCycle]_vars

\* ------------------------------ pkt_hexdumpc_process on any batch, on its own
\* captured lengths of the entries of a batch
BatchCaplens == {0, 1, 3}

BatchEntries == [present : BOOLEAN, caplen : BatchCaplens]

\* the batches of extent 1 to MaxExtent
Batches == UNION {[1..n -> BatchEntries] : n \in 1..MaxExtent}

InitBatch ==
    /\ pc = "batch"
    /\ h = NoPktHdr
    /\ batch \in Batches
    /\ InitRest

\* pkt_hexdumpc_process is called on the batch, its private state at pkt_num 0
HexdumpcOnBatch ==
    /\ pc = "batch"
    /\ walk' = hexdumpc_batch(batch, 0)
    /\ pc' = IF hexdumpc_batch(batch, 0).hung THEN "hung" ELSE "walked"
    /\ UNCHANGED <<srcVars, regVars, pkt_master_list, pkt1, h, th, buffer1, batch,
                   calls, ret, prev_ret, returned_to_pool, cycles, dispVars, exitVars,
                   nframes, null_deref>>

NextBatch == HexdumpcOnBatch

SpecBatch == InitBatch /\ [][NextBatch]_vars

\* ----------------------------- pktdump_runpipeline on every result, on its own
\* what pcap_dispatch returns on an open savefile: -2 after pcap_breakloop, -1
\* on an error, else the number of frames it handed to the callback
DispatchResults == (-2)..MaxResult

InitRet ==
    /\ pc = "pcap_dispatch"
    /\ h = NoPktHdr
    /\ batch = <<>>
    /\ InitRest

\* pcap_dispatch returns any of its results to pktdump_runpipeline
PcapDispatchReturns ==
    /\ pc = "pcap_dispatch"
    /\ \E result \in DispatchResults : DispatchReturns(result)

NextRet == PcapDispatchReturns

SpecRet == InitRet /\ [][NextRet]_vars

\* ------------------------------------- the descriptor of one frame, on its own
\* the size of buffer1
BufferSize == 65536 + 2048

\* captured lengths, among them lengths above the 65536 bytes buffer1 has room for
DescCaplens == {0, 64, 65536, 65537, 70000}
\* on-wire lengths
DescLens == {64, 128, 70000}
\* seconds, among them values that need more than 32 bits
DescSeconds == {Seconds(hi, lo) : hi \in {0, 1}, lo \in {0, 10}}
\* the fraction of a second, among them values that need more than 32 bits
DescFractions == {Micros(hi, lo) : hi \in {0, 1}, lo \in {5, 500, 999999999}}

\* the pcap_pkthdr records pcap_dispatch may hand to the callback
DescHdrs == [caplen : DescCaplens, len : DescLens, tv_sec : DescSeconds,
             tv_usec : DescFractions]

InitDesc ==
    /\ pc = "frame"
    /\ h \in DescHdrs
    /\ batch = <<>>
    /\ InitRest

\* lines 72-91 of pktdump_process_one on the frame h: the header is built and
\* the bytes are copied
DescribeFrame ==
    /\ pc = "frame"
    /\ th' = BuildHeader(h)
    /\ buffer1' = CopyBytes(h)
    /\ pc' = "described"
    /\ UNCHANGED <<srcVars, regVars, pkt_master_list, pkt1, h, batch, walk, calls, ret,
                   prev_ret,
                   returned_to_pool, cycles, dispVars, exitVars, nframes, null_deref>>

NextDesc == DescribeFrame

SpecDesc == InitDesc /\ [][NextDesc]_vars

\* ===================================================================== claims
\* stage index k is registered and has a process operation
HasProc(k) == k < pkt_stage_next /\ pkt_stages[k].pi_stage \in {"hexdumpc", "probe"}

StageIndices == 0..(PKT_PIPELINE_MAX - 1)

\* the stage indices invoked in the last cycle
Called == {calls[a].stage : a \in 1..Len(calls)}

\* C1: within one dispatch cycle the process operations are invoked in
\* registration order, each at most once, none skipped, and once a stage has
\* returned non-zero no later stage is invoked in that cycle.
C1_RegistrationOrder ==
    /\ \A a \in 1..Len(calls) : calls[a].stage \in StageIndices /\ HasProc(calls[a].stage)
    /\ \A a, b \in 1..Len(calls) : a < b => calls[a].stage < calls[b].stage
    /\ \A a \in 1..Len(calls) : \A k \in StageIndices :
          HasProc(k) /\ k < calls[a].stage => k \in Called
    /\ \A a \in 1..Len(calls) : calls[a].ret # 0 => a = Len(calls)

\* a cycle in which a stage returned non-zero after an earlier stage had run,
\* with a stage behind it left uninvoked
C1_Witness ==
    /\ Len(calls) >= 2
    /\ calls[Len(calls)].ret # 0
    /\ \E k \in StageIndices : HasProc(k) /\ k > calls[Len(calls)].stage

\* C2: the i-th successful pktdump_pipeline_add returns the instance at position
\* i of the stage array, whose pi_stage_num is i; the indices given out are
\* 0..count-1 in registration order, and the count never exceeds
\* PKT_PIPELINE_MAX.
C2_SequentialIndices ==
    /\ pkt_stage_next <= PKT_PIPELINE_MAX
    /\ Len(returned) = pkt_stage_next
    /\ \A i \in 1..Len(returned) :
          /\ returned[i].slot = i - 1
          /\ pkt_stages[i - 1].pi_stage_num = i - 1
          /\ pkt_stages[i - 1].pi_stage = returned[i].stage

\* the registry filled to its capacity, with more than one stage descriptor in it
C2_Witness ==
    /\ pkt_stage_next = PKT_PIPELINE_MAX
    /\ Len(returned) = PKT_PIPELINE_MAX
    /\ \E i \in 1..Len(returned) : returned[i].stage # "hexdumpc"

\* a pktdump_pipeline_add was attempted in this step
AddAttempted == rejected' # rejected \/ Len(returned') > Len(returned)

\* C3: with PKT_PIPELINE_MAX stages registered a further pktdump_pipeline_add
\* returns NULL, calls no init and leaves the count and every instance as they
\* were; a later dispatch cycle still runs the first PKT_PIPELINE_MAX stages in
\* order.
C3_CapacityRejected ==
    /\ [][(pkt_stage_next >= PKT_PIPELINE_MAX /\ AddAttempted) =>
            /\ last_add'.ret = -1
            /\ ~last_add'.init_called
            /\ wrap_ret' # 0
            /\ pkt_stage_next' = pkt_stage_next
            /\ pkt_stages' = pkt_stages
            /\ returned' = returned]_vars
    /\ [](rejected > 0 /\ cycles > 0 /\ ret = 0 /\ pc # "crashed" =>
            /\ pkt_stage_next = PKT_PIPELINE_MAX
            /\ \A k \in StageIndices : HasProc(k) <=> k \in Called
            /\ \A a, b \in 1..Len(calls) : a < b => calls[a].stage < calls[b].stage
            /\ \A i \in 1..Len(returned) : pkt_stages[i - 1].pi_stage = returned[i].stage)

\* after a rejected registration a cycle has run all PKT_PIPELINE_MAX stages
C3_Witness ==
    /\ rejected > 0
    /\ cycles > 0
    /\ Len(calls) = PKT_PIPELINE_MAX
    /\ pc = "dispatch"

\* C4: when a stage's init reports failure, pktdump_pipeline_add returns no
\* usable instance and the wrapper returns non-zero, and the stage's process is
\* never invoked in a later dispatch cycle.
C4_InitFailureReported ==
    /\ (last_add.init_called /\ last_add.init_ret < 0) =>
          (last_add.ret = -1 /\ wrap_ret # 0)
    /\ \A a \in 1..Len(calls) : calls[a].stage \notin init_failed

\* the processing stages the last invocation of a cycle left uninvoked
CutOff(cs) == {k \in StageIndices : /\ HasProc(k)
                                    /\ Len(cs) > 0
                                    /\ cs[Len(cs)].ret # 0
                                    /\ k > cs[Len(cs)].stage}

\* C5: a stage's non-zero return in one cycle has no effect on the next: the
\* dispatch loop goes on, and the next cycle starts again at the first stage and
\* reaches the stages that had been cut off.
C5_NextCycleUnaffected ==
    [][cycles' = cycles + 1 =>
         /\ ret' # 0 => pc' = "dispatch"
         /\ ret # 0 =>
              /\ \A k \in StageIndices :
                    (HasProc(k) /\ \A j \in StageIndices : j < k => ~HasProc(j))
                       => k \in {calls'[a].stage : a \in 1..Len(calls')}
              /\ \A k \in CutOff(calls) :
                    \/ k \in {calls'[a].stage : a \in 1..Len(calls')}
                    \/ \E a \in 1..Len(calls') : calls'[a].stage < k /\ calls'[a].ret # 0
                    \/ pc' = "crashed"]_vars

\* a cycle cut short by a stage, followed by a cycle that ran every stage
C5_Witness ==
    /\ cycles >= 2
    /\ prev_ret # 0
    /\ ret = 0
    /\ pc = "dispatch"
    /\ Len(calls) >= 2
    /\ \A k \in StageIndices : HasProc(k) => k \in Called

\* C6: once a stage has marked the batch entry absent, every stage invoked after
\* it in the same cycle observes it absent, and it is absent when the cycle ends.
C6_ClaimIsPermanent ==
    /\ \A a, b \in 1..Len(calls) : a < b /\ ~calls[a].left => ~calls[b].seen
    /\ \A a \in 1..Len(calls) : a > 1 => calls[a].seen = calls[a - 1].left
    /\ (pc # "crashed" /\ \E a \in 1..Len(calls) : ~calls[a].left) => pkt1[1] = "NULL"

\* a stage claimed the entry and a later stage of the same cycle saw it absent
C6_Witness ==
    \E a, b \in 1..Len(calls) :
        a < b /\ calls[a].seen /\ ~calls[a].left /\ ~calls[b].seen

\* C7: when a dispatch cycle ends, every entry still present has been returned
\* to the capture mechanism's buffer pool.
C7_UnclaimedReturned ==
    (cycles > 0 /\ pc # "crashed") =>
        \A k \in 1..Len(pkt1) : pkt1[k] # "NULL" => k \in returned_to_pool

\* stage k always returns 0 and counts, and nothing before it can claim the
\* entry or cut the cycle short
CountsEveryFrame(k) ==
    /\ k < pkt_stage_next
    /\ pkt_stages[k].pi_stage = "hexdumpc"
    /\ ~pkt_stages[k].pi_stage_info.null
    /\ \A j \in StageIndices : j < k => pkt_stages[j].pi_stage \in {"hexdumpc", "noproc"}

\* pktdump_runpipeline has returned to main
DispatchReturned ==
    pc \in {"ran", "finished"} \/ (pc = "exited" /\ exit_status.kind = "ret")

\* C8: for a source replaying N frames without a capture error,
\* pktdump_runpipeline runs exactly N dispatch cycles, and a counting stage that
\* every cycle reaches has counted N when dispatch returns.
C8_OneCyclePerFrame ==
    (DispatchReturned /\ dispatch_result >= 0) =>
        /\ cycles = nframes
        /\ delivered = nframes
        /\ \A k \in StageIndices :
              CountsEveryFrame(k) => pkt_stages[k].pi_stage_info.pkt_num = nframes

\* dispatch returned after replaying two or more frames through a counting stage
C8_Witness ==
    /\ pc = "ran"
    /\ dispatch_result >= 0
    /\ nframes >= 2
    /\ cycles = nframes
    /\ \E k \in StageIndices :
          CountsEveryFrame(k) /\ k > 0 /\ pkt_stages[k].pi_stage_info.pkt_num = nframes

\* main's exit status after a run in which dispatch completed without error
CleanExitStatus ==
    [kind |-> "ret", val |-> MainRetAfterFinish(RunPipelineRet(0), FinishRet)]

\* C9: a hard capture error is propagated: pktdump_runpipeline returns a
\* negative result and the program's exit status differs from that of a run
\* whose dispatch completed without error.
C9_CaptureErrorPropagated ==
    (pc = "exited" /\ exit_status.kind = "ret" /\ dispatch_result < 0) =>
        /\ run_ret < 0
        /\ exit_status # CleanExitStatus

\* C10: after pktdump_finish on an Open source the capture handle and the
\* PipelineSource allocation are both released.
C10_FinishReleasesAll ==
    finish_calls > 0 => (~pps_allocated /\ ps_pcap_reader # "open")

\* C11: pktdump_finish is idempotent: a call on a null source, or a second
\* call on a source that was already finished, releases nothing a second
\* time and changes no state. (Fails: free() is called again on the address
\* of a finished source.)
C11_FinishIdempotent ==
    finish_calls > 1 => frees = 1 /\ ~pps_allocated /\ pc # "crashed"

\* the state of the PipelineSource: Unopened before pktdump_inputsource gave
\* one, Open while main reads its options (a source a later input option left
\* behind stays Open, and so does the source main holds when a further
\* pktdump_inputsource dies), Running during pcap_dispatch, Closed once pcap_dispatch
\* returned or pktdump_finish was called
SrcState ==
    IF finish_calls > 0 \/ pc \in {"ran", "finished"} THEN "Closed"
    ELSE IF pps = "NULL" /\ orphans = 0 THEN "Unopened"
    ELSE IF pc \in {"opts", "exited"} \/ (pc = "crashed" /\ null_deref = "pps")
    THEN "Open"
    ELSE "Running"

SrcEdges == {<<"Unopened", "Open">>, <<"Open", "Running">>, <<"Running", "Closed">>}

\* C12: the PipelineSource follows Unopened -> Open -> Running -> Closed:
\* every step keeps the state or takes one of these three edges, a stage is
\* registered only on an Open source that has dispatched nothing, a dispatch
\* cycle (and so every stage invocation) happens only while Running, and once
\* Closed the registry, the cycle count and the dispatch results stay as they are.
C12_Lifecycle ==
    [][/\ SrcState' = SrcState \/ <<SrcState, SrcState'>> \in SrcEdges
       /\ AddAttempted => SrcState = "Open" /\ SrcState' = "Open"
                           /\ cycles = 0 /\ delivered = 0
       /\ (cycles' # cycles \/ delivered' # delivered)
             => SrcState = "Running" /\ pps_allocated
       /\ SrcState = "Closed"
             => /\ ~AddAttempted
                /\ UNCHANGED <<regVars, cycles, calls, delivered, dispatch_result,
                               run_ret>>]_vars

\* a run that registered a stage, dispatched a frame to it, finished and exited
C12_Witness ==
    /\ pc = "exited"
    /\ finish_calls = 1
    /\ pkt_stage_next > 0
    /\ cycles > 0
    /\ Len(calls) > 0

\* C13: when the capture file does not open, pktdump_inputsource returns null
\* with the diagnostic text set and no PipelineSource allocation live, and the
\* program exits with the open-failure status having registered no stage and
\* run no dispatch cycle; when it opens, the pipeline's data-link type is the
\* file's and the stage count is 0 until a stage is registered.
C13_OpenOutcome ==
    /\ exit_status.kind = "S_ERR_ND_OPEN_FILE"
          => /\ pc = "exited"
             /\ pps = "NULL"
             /\ ~pps_allocated
             /\ ps_pcap_reader = "NULL"
             /\ ebuf = "set"
             /\ frees = 1
             /\ finish_calls = 0
             /\ pkt_stage_next = 0
             /\ returned = <<>>
             /\ cycles = 0
             /\ delivered = 0
    /\ pps = "live"
          => /\ pkt_datalink = file_datalink
             /\ file_datalink \in Datalinks
             /\ pkt_stage_next = Len(returned)
             /\ returned = <<>> => pkt_stage_next = 0

\* the file did not open and the program has exited
C13_Witness ==
    /\ pc = "exited"
    /\ exit_status = Status("S_ERR_ND_OPEN_FILE")
    /\ ebuf = "set"
    /\ pps = "NULL"

\* the header and the copy agree with the frame h in everything but the
\* timestamp
DescriptorFields ==
    /\ th.tp_snaplen = h.caplen
    /\ th.tp_len = h.len
    /\ th.tp_mac = 2048
    /\ th.tp_status = 0
    /\ buffer1 = [offset |-> th.tp_mac, count |-> h.caplen]

\* C14 as stated: for every frame with captured length at most 65536 the
\* descriptor has the frame's captured length, on-wire length, offset 2048 and
\* the frame's timestamp (seconds, fraction), and the bytes from the offset on
\* are the frame's. (Fails for seconds that do not fit the 32-bit tp_sec and
\* for a fraction that does not fit the 32-bit tp_nsec.)
C14_DescriptorExact ==
    (pc = "described" /\ h.caplen <= 65536)
        => /\ DescriptorFields
           /\ h.tv_sec = Seconds(0, th.tp_sec)
           /\ h.tv_usec = Micros(0, th.tp_nsec)

\* C14 amended: as C14, with the seconds and the fraction of the descriptor
\* each equal to the frame's modulo 2^32, which is the frame's value whenever
\* that fits in 32 bits.
C14_DescriptorMod32 ==
    (pc = "described" /\ h.caplen <= 65536)
        => /\ DescriptorFields
           /\ th.tp_sec = h.tv_sec.lo32
           /\ h.tv_sec.hi32 = 0 => h.tv_sec = Seconds(0, th.tp_sec)
           /\ th.tp_nsec = h.tv_usec.lo32
           /\ h.tv_usec.hi32 = 0 => h.tv_usec = Micros(0, th.tp_nsec)

\* the descriptor of a frame of 64 captured bytes, 128 on the wire, at (10, 500)
C14_Witness ==
    /\ pc = "described"
    /\ h = [caplen |-> 64, len |-> 128, tv_sec |-> Seconds(0, 10),
            tv_usec |-> Micros(0, 500)]
    /\ th = [tp_mac |-> 2048, tp_sec |-> 10, tp_nsec |-> 500, tp_snaplen |-> 64,
             tp_len |-> 128, tp_status |-> 0]
    /\ buffer1 = [offset |-> 2048, count |-> 64]

\* C15: whatever the reported captured length, offset + captured length of the
\* descriptor is at most the buffer's size, and so is the end of the copied
\* bytes: a captured length above 65536 is clamped to 65536 before the copy.
C15_WithinBuffer ==
    /\ th.tp_mac + th.tp_snaplen <= BufferSize
    /\ buffer1.offset + buffer1.count <= BufferSize
    /\ pc = "described"
          => /\ th.tp_mac = 2048
             /\ buffer1.count = th.tp_snaplen
             /\ h.caplen > 65536 => th.tp_snaplen = 65536
             /\ h.caplen <= 65536 => th.tp_snaplen = h.caplen

\* a frame reported with more than 65536 captured bytes was described
C15_Witness ==
    /\ pc = "described"
    /\ h.caplen > 65536
    /\ th.tp_snaplen = 65536
    /\ buffer1.count = 65536

\* no stage has counted a packet: every private state is as init left it
InfosAsInit ==
    \A k \in StageIndices : pkt_stages[k].pi_stage_info.pkt_num = 0

\* C16: dispatching a source that yields no frame invokes no process
\* operation, leaves every stage's private state and the registry as they
\* were, and pktdump_runpipeline returns 0.
C16_EmptySource ==
    /\ [][(pc = "dispatch" /\ nframes = 0)
            => /\ UNCHANGED <<regVars, cycles, calls, delivered, pkt1, th>>
               /\ pc' = "ran"
               /\ run_ret' = 0]_vars
    /\ [](nframes = 0 => cycles = 0 /\ calls = <<>> /\ InfosAsInit /\ run_ret = 0
                          /\ pkt_stage_next = Len(returned))

\* pcap_dispatch returned on a file without frames, with stages registered
C16_Witness ==
    /\ pc = "ran"
    /\ pps = "live"
    /\ nframes = 0
    /\ pkt_stage_next > 1
    /\ run_ret = 0

\* the instances whose private state differs after this step
InfoChanged ==
    {k \in StageIndices : pkt_stages'[k].pi_stage_info # pkt_stages[k].pi_stage_info}

\* C17: the engine does not touch a stage's private state: an add leaves
\* every instance registered before as it was, a dispatch cycle leaves
\* pi_stage, pi_stage_num and the private-state handle of every instance as
\* they were, and a private state changes only for the stage just added (by
\* its init) or for a stage invoked in the cycle (by its own process).
C17_InfoOwnedByStage ==
    [][/\ AddAttempted
            => \A k \in StageIndices :
                  k < pkt_stage_next => pkt_stages'[k] = pkt_stages[k]
       /\ cycles' # cycles
            => \A k \in StageIndices :
                  /\ pkt_stages'[k].pi_stage = pkt_stages[k].pi_stage
                  /\ pkt_stages'[k].pi_stage_num = pkt_stages[k].pi_stage_num
                  /\ pkt_stages'[k].pi_stage_info.null = pkt_stages[k].pi_stage_info.null
       /\ \A k \in InfoChanged :
             \/ /\ AddAttempted
                /\ k = pkt_stage_next
                /\ last_add'.ret = k
                /\ last_add'.init_called
             \/ /\ cycles' # cycles
                /\ \E a \in 1..Len(calls') : calls'[a].stage = k /\ calls'[a].seen]_vars

\* a second stage was added after a first, and a cycle let both count a packet
C17_Witness ==
    /\ cycles > 0
    /\ pkt_stage_next > 1
    /\ pkt_stages[0].pi_stage_info.pkt_num > 0
    /\ pkt_stages[1].pi_stage_info.pkt_num > 0

\* C18: when the allocation of the PipelineSource fails pktdump_inputsource
\* returns null without reading or writing through the failed allocation, and
\* a stage whose private-state allocation failed in init is never invoked
\* with a null private state. (Fails on both counts.)
C18_AllocFailureHandled ==
    /\ null_deref # "pps"
    /\ \A a \in 1..Len(calls) :
          calls[a].stage \in init_failed => ~calls[a].info_null

\* C18, its second half alone: no stage whose init failed is invoked with a
\* null private state
C18_FailedStageNotInvoked ==
    \A a \in 1..Len(calls) : calls[a].stage \in init_failed => ~calls[a].info_null

\* C19: in every dispatch cycle the batch handed to the first stage has
\* extent 1 and its one entry is present and carries the header of that
\* cycle's frame, whether or not a stage claimed the entry in a cycle before.
C19_FreshBatchEveryCycle ==
    /\ cycles > 0 => pkt_master_list.pkt_extent = 1
    /\ Len(calls) > 0
          => /\ calls[1].extent = 1
             /\ calls[1].seen
             /\ calls[1].hdr = th
             /\ calls[1].hdr.tp_snaplen = h.caplen
             /\ calls[1].hdr.tp_len = h.len
             /\ calls[1].hdr.tp_sec = h.tv_sec.lo32
             /\ calls[1].hdr.tp_nsec = h.tv_usec.lo32
             /\ HasProc(0) => calls[1].stage = 0

\* the first stage claimed the entry of the first frame (the counting stage
\* behind it was invoked and counted nothing) and both stages were handed the
\* entry of the second frame
C19_Witness ==
    /\ cycles = 2
    /\ prev_ret = 0
    /\ pkt_stage_next = 2
    /\ pkt_stages[0].pi_stage = "probe"
    /\ pkt_stages[1].pi_stage = "hexdumpc"
    /\ ~pkt_stages[1].pi_stage_info.null
    /\ pkt_stages[1].pi_stage_info.pkt_num = 1
    /\ Len(calls) = 2
    /\ calls[1].seen
    /\ calls[2].seen

\* C20: the batch is not kept across cycles: once pktdump_process_one has
\* returned, pkt_master_list refers to no array of that cycle. (Fails: pkt_list
\* still holds the address of the callback's local pkt1.)
C20_BatchNotRetained ==
    cycles > 0 => pkt_master_list.pkt_list = "NULL"

\* every invocation of the last cycle before stage j returned 0
NoFailureBefore(j) == \A a \in 1..Len(calls) : calls[a].stage < j => calls[a].ret = 0

\* C21: a registered stage without a process operation is not invoked and
\* does not stop the cycle: every stage after it that has a process operation
\* is invoked unless an invoked stage before it returned non-zero, and the
\* skipped stage's own result is 0 whatever an earlier cycle returned.
C21_NoProcessSkipped ==
    (cycles > 0 /\ pc \notin {"crashed", "hung"})
        => \A k \in StageIndices :
              (k < pkt_stage_next /\ pkt_stages[k].pi_stage = "noproc")
                  => /\ k \notin Called
                     /\ \A j \in StageIndices :
                           (j > k /\ HasProc(j) /\ NoFailureBefore(j)) => j \in Called
                     /\ (k = pkt_stage_next - 1 /\ NoFailureBefore(k)) => ret = 0

\* the cycle before ended with a non-zero ret; in this one the first stage
\* returned 0, the second has no process operation and the third was invoked
C21_Witness ==
    /\ cycles = 2
    /\ prev_ret # 0
    /\ pkt_stage_next = 3
    /\ pkt_stages[0].pi_stage = "probe"
    /\ pkt_stages[1].pi_stage = "noproc"
    /\ pkt_stages[2].pi_stage = "hexdumpc"
    /\ Called = {0, 2}
    /\ ret = 0
    /\ pc = "dispatch"

\* C22: a registered stage with an init operation had it called exactly once,
\* a stage without one never; the call happens inside pktdump_pipeline_add on
\* the instance that already holds its index and its stage, and the add
\* returns that instance; no dispatch cycle calls an init.
C22_InitOnceInsideAdd ==
    /\ [][/\ cycles' # cycles => init_calls' = init_calls
          /\ init_calls' # init_calls
                => /\ AddAttempted
                   /\ last_add'.init_called
                   /\ last_add'.ret = pkt_stage_next
                   /\ last_add'.init_saw =
                         [pi_stage |-> pkt_stages'[pkt_stage_next].pi_stage,
                          pi_stage_num |-> pkt_stage_next]
                   /\ pkt_stages'[pkt_stage_next].pi_stage_num = pkt_stage_next
                   /\ init_calls' = [init_calls EXCEPT ![pkt_stage_next] = 1]]_vars
    /\ [](\A k \in StageIndices :
             init_calls[k] = IF k < pkt_stage_next /\ pkt_stages[k].pi_stage # "noproc"
                             THEN 1 ELSE 0)

\* a stage with init and a stage without were registered and a cycle was run
C22_Witness ==
    /\ cycles > 0
    /\ pkt_stage_next = 2
    /\ pkt_stages[0].pi_stage = "noproc"
    /\ pkt_stages[1].pi_stage = "hexdumpc"
    /\ init_calls[0] = 0
    /\ init_calls[1] = 1

\* C24: pktdump_runpipeline returns a negative value whenever pcap_dispatch
\* returned one, 0 exactly when pcap_dispatch returned a frame count, and
\* keeps -1 (error) and -2 (loop broken) apart.
C24_RunPipelineResult ==
    pc = "ran"
        => /\ dispatch_result < 0 => run_ret < 0
           /\ run_ret = 0 <=> dispatch_result >= 0
           /\ dispatch_result = -1 => run_ret = -1
           /\ dispatch_result = -2 => run_ret = -2

\* pcap_dispatch returned -2 and pktdump_runpipeline passed it on
C24_Witness ==
    /\ pc = "ran"
    /\ dispatch_result = -2
    /\ run_ret = -2

\* the present entries of the batch
PresentEntries == {k \in 1..Len(batch) : batch[k].present}

\* C25: on every batch pkt_hexdumpc_process ends, looks at each index below
\* the extent exactly once, raises pkt_num by the number of present entries
\* and returns 0. (Fails: the byte loop reuses the packet loop's index.)
C25_HexdumpcVisitsAll ==
    /\ pc # "hung"
    /\ pc = "walked"
          => /\ \A k \in 1..Len(batch) : walk.visits[k] = 1
             /\ walk.pkt_num = Cardinality(PresentEntries)
             /\ walk.ret = 0

\* C25, termination alone: pkt_hexdumpc_process ends on every batch
C25_HexdumpcTerminates == pc # "hung"

\* C25, for the calls that end: each index is looked at once and each
\* present entry counted
C25_HexdumpcCountsAll ==
    pc = "walked"
        => /\ \A k \in 1..Len(batch) : walk.visits[k] = 1
           /\ walk.pkt_num = Cardinality(PresentEntries)

\* the sources that are open: the one pps points to and the ones left behind
OpenSources == orphans + (IF pps_allocated THEN 1 ELSE 0)

\* C23: every source opened in a run is finished before the program exits
\* normally, also with more than one input option: at most one source is open
\* at any time and none is open at a normal exit. (Fails: a second input
\* option overwrites pps and the first source is never finished.)
C23_EverySourceClosed ==
    /\ OpenSources <= 1
    /\ (pc = "exited" /\ exit_status.kind = "ret") => OpenSources = 0

\* C23, at a normal exit alone: no source is open
C23_NoneOpenAtExit ==
    (pc = "exited" /\ exit_status.kind = "ret") => OpenSources = 0

=============================================================================
